---- MODULE Spec2Model ----
(***************************************************************************)
(* Analemma Vision Engine: the solar-position computation and sky          *)
(* projection pipeline (AnalemmaCalculator, SkyMapper, ImageAnchorer).     *)
(*                                                                         *)
(* Numbers.  The program computes in IEEE doubles.  The model computes in  *)
(* fixed point and rounds to nearest after every operation, as the         *)
(* hardware does:                                                          *)
(*   angles               thousandths of a degree   (40.1 deg = 40100)     *)
(*   sines, cosines       ten-thousandths           (1.0 = 10000 = SCALE)  *)
(*   equation of time     thousandths of a minute                          *)
(*   pixels per degree    hundredths of a pixel per degree                 *)
(*   focal length, sensor tenths of a millimetre                           *)
(* A double that may be not-a-number is a record [nan, v].                 *)
(***************************************************************************)
EXTENDS Integers, Sequences, FiniteSets, TLC

(***************************************************************************)
(* Arithmetic of the numeric library                                       *)
(***************************************************************************)

\* sin(d degrees) * 10000 for d = 0..90, rounded to nearest
SinTab ==
    <<    0,   175,   349,   523,   698,   872,  1045,  1219,  1392,  1564,
       1736,  1908,  2079,  2250,  2419,  2588,  2756,  2924,  3090,  3256,
       3420,  3584,  3746,  3907,  4067,  4226,  4384,  4540,  4695,  4848,
       5000,  5150,  5299,  5446,  5592,  5736,  5878,  6018,  6157,  6293,
       6428,  6561,  6691,  6820,  6947,  7071,  7193,  7314,  7431,  7547,
       7660,  7771,  7880,  7986,  8090,  8192,  8290,  8387,  8480,  8572,
       8660,  8746,  8829,  8910,  8988,  9063,  9135,  9205,  9272,  9336,
       9397,  9455,  9511,  9563,  9613,  9659,  9703,  9744,  9781,  9816,
       9848,  9877,  9903,  9925,  9945,  9962,  9976,  9986,  9994,  9998,
      10000 >>

\* the fixed-point representation of 1.0
SCALE == SinTab[91]

Abs(x) == IF x < 0 THEN -x ELSE x

Sign(x) == IF x < 0 THEN -1 ELSE IF x > 0 THEN 1 ELSE 0

Max2(a, b) == IF a >= b THEN a ELSE b

\* a / b rounded to nearest, b > 0
RoundDiv(a, b) ==
    IF a >= 0 THEN (2 * a + b) \div (2 * b)
    ELSE -((2 * (-a) + b) \div (2 * b))

\* int(a / b) of Python: truncation toward zero, b > 0
TruncDiv(a, b) == IF a >= 0 THEN a \div b ELSE -((-a) \div b)

\* product of two fixed-point values
Mul(a, b) == RoundDiv(a * b, SCALE)

\* a double that is a number, and the not-a-number double
Num(x) == [nan |-> FALSE, inf |-> FALSE, v |-> x]

NaN == [nan |-> TRUE, inf |-> FALSE, v |-> 0]

Inf == [nan |-> FALSE, inf |-> TRUE, v |-> 0]

\* np.sin on the first quadrant, m in 0..90000
SinQ(m) ==
    LET d == m \div 1000
        f == m % 1000
    IN  IF f = 0 THEN SinTab[d + 1]
        ELSE SinTab[d + 1] + RoundDiv((SinTab[d + 2] - SinTab[d + 1]) * f, 1000)

\* np.sin(np.radians(m / 1000))
Sin(m) ==
    LET r == m % 360000
    IN  IF r <= 90000 THEN SinQ(r)
        ELSE IF r <= 180000 THEN SinQ(180000 - r)
        ELSE IF r <= 270000 THEN -SinQ(r - 180000)
        ELSE -SinQ(360000 - r)

\* np.cos(np.radians(m / 1000))
Cos(m) == Sin(m + 90000)

\* the degree d in 0..89 with sin(d) <= v < sin(d + 1), 0 <= v < SCALE
SinIndex(v) == CHOOSE d \in 0..89 : SinTab[d + 1] <= v /\ v < SinTab[d + 2]

\* np.degrees(np.arcsin(v / SCALE)) for 0 <= v <= SCALE
ArcSinQ(v) ==
    IF v >= SCALE THEN 90000
    ELSE LET d == SinIndex(v)
         IN  d * 1000 + RoundDiv((v - SinTab[d + 1]) * 1000,
                                 SinTab[d + 2] - SinTab[d + 1])

\* np.degrees(np.arcsin(v / SCALE)): not-a-number outside [-1, 1]
ArcSin(v) ==
    IF Abs(v) > SCALE THEN NaN
    ELSE IF v >= 0 THEN Num(ArcSinQ(v)) ELSE Num(-ArcSinQ(-v))

\* np.degrees(np.arccos(v / SCALE)): not-a-number outside [-1, 1]
ArcCos(v) ==
    IF Abs(v) > SCALE THEN NaN
    ELSE IF v >= 0 THEN Num(90000 - ArcSinQ(v)) ELSE Num(90000 + ArcSinQ(-v))

\* the degree d in 0..89 with tan(d) <= a / b < tan(d + 1), b > 0;
\* cos(d) is SinTab[91 - d]
TanIndex(a, b) ==
    CHOOSE d \in 0..89 : /\ a * SinTab[91 - d] >= b * SinTab[d + 1]
                         /\ a * SinTab[90 - d] < b * SinTab[d + 2]

\* the angle in 0..90000 of the direction (b, a), a >= 0, b >= 0, not both 0
ArcTanQ(a, b) ==
    LET k  == (Max2(a, b) \div SCALE) + 1
        a1 == IF Max2(a, b) > SCALE THEN a \div k ELSE a
        b1 == IF Max2(a, b) > SCALE THEN b \div k ELSE b
    IN  IF a1 = 0 /\ b1 = 0 THEN (IF a >= b THEN 90000 ELSE 0)
        ELSE IF b1 = 0 THEN 90000
        ELSE IF a1 = 0 THEN 0
        ELSE LET d == TanIndex(a1, b1)
                 u == (a1 * SinTab[91 - d] - b1 * SinTab[d + 1]) \div 8
                 w == (b1 * SinTab[d + 2] - a1 * SinTab[90 - d]) \div 8
             IN  IF u + w = 0 THEN d * 1000
                 ELSE d * 1000 + RoundDiv(u * 1000, u + w)

\* np.degrees(np.arctan2(y, x)), in -180000..180000; arctan2(0, 0) = 0
ArcTan2(y, x) ==
    IF y = 0 /\ x = 0 THEN 0
    ELSE IF x >= 0 /\ y >= 0 THEN ArcTanQ(y, x)
    ELSE IF x < 0 /\ y >= 0 THEN 180000 - ArcTanQ(y, -x)
    ELSE IF x < 0 /\ y < 0 THEN ArcTanQ(-y, -x) - 180000
    ELSE -ArcTanQ(-y, x)

\* np.degrees(np.arctan(n / d)), d # 0, in -90000..90000
ArcTan(n, d) == Sign(n) * Sign(d) * ArcTanQ(Abs(n), Abs(d))

\* np.tan(np.radians(m / 1000)), -90000 <= m <= 90000; the double nearest
\* to 90 degrees in radians is below pi/2, so tan is huge there, not infinite
TanHuge == SCALE * SCALE

Tan(m) ==
    IF Cos(m) = 0 THEN Sign(Sin(m)) * TanHuge
    ELSE RoundDiv(Sin(m) * SCALE, Cos(m))

(***************************************************************************)
(* datetime and timedelta of the standard library                          *)
(***************************************************************************)

IsLeap(y) == (y % 4 = 0 /\ y % 100 # 0) \/ y % 400 = 0

YearLen(y) == IF IsLeap(y) THEN 366 ELSE 365

MonthLen(y, m) ==
    IF m = 2 THEN (IF IsLeap(y) THEN 29 ELSE 28)
    ELSE IF m \in {4, 6, 9, 11} THEN 30 ELSE 31

\* days of a common year before each month
CumDays == <<0, 31, 59, 90, 120, 151, 181, 212, 243, 273, 304, 334>>

\* days of year y before month m
DaysBefore(y, m) == CumDays[m] + (IF m > 2 /\ IsLeap(y) THEN 1 ELSE 0)

\* datetime(year, month, day, hour, minute)
DateTime(y, mo, d, h, mi) ==
    [year |-> y, month |-> mo, day |-> d, hour |-> h, minute |-> mi]

\* date.timetuple().tm_yday
tm_yday(date) == DaysBefore(date.year, date.month) + date.day

\* the date of day number yd of year y, 1 <= yd <= YearLen(y)
InYear(y, yd, h, mi) ==
    LET mo == CHOOSE m \in 1..12 :
                 DaysBefore(y, m) < yd /\ yd <= DaysBefore(y, m) + MonthLen(y, m)
    IN  DateTime(y, mo, yd - DaysBefore(y, mo), h, mi)

\* the date of day number yd of year y, where yd may run into the two
\* following years
FromYday(y, yd, h, mi) ==
    IF yd <= YearLen(y) THEN InYear(y, yd, h, mi)
    ELSE IF yd - YearLen(y) <= YearLen(y + 1)
    THEN InYear(y + 1, yd - YearLen(y), h, mi)
    ELSE InYear(y + 2, yd - YearLen(y) - YearLen(y + 1), h, mi)

\* date + timedelta(days=n), n >= 0
AddDays(date, n) == FromYday(date.year, tm_yday(date) + n, date.hour, date.minute)

\* the calendar day after date, by month and day
NextDay(date) ==
    IF date.day < MonthLen(date.year, date.month)
    THEN [date EXCEPT !.day = date.day + 1]
    ELSE IF date.month < 12
    THEN [date EXCEPT !.month = date.month + 1, !.day = 1]
    ELSE [date EXCEPT !.year = date.year + 1, !.month = 1, !.day = 1]

(***************************************************************************)
(* AnalemmaCalculator                                                      *)
(***************************************************************************)

\* Earth's axial tilt, thousandths of a degree
OBLIQUITY == 23450

\* datetime.now().year
NowYear == 2026

\* the outcome of a call: a returned value or a raised exception
Return(value) == [outcome |-> "ok", value |-> value]

Raise(exc) == [outcome |-> exc, value |-> <<>>]

Raised(r) == r.outcome # "ok"

\* a declination whose amplitude is 23.5 degrees
calculate_declination_wide(day_of_year) ==
    LET phase_shifted_day == 284 + day_of_year
        angle             == RoundDiv(360000 * phase_shifted_day, 365)
    IN  RoundDiv(23500 * Sin(angle), SCALE)

calculate_declination_approximate(day_of_year) ==
    LET phase_shifted_day == 284 + day_of_year
        angle             == RoundDiv(360000 * phase_shifted_day, 365)
    IN  RoundDiv(OBLIQUITY * Sin(angle), SCALE)

\* an equation of time in seconds
calculate_equation_of_time_seconds(day_of_year) ==
    LET B == RoundDiv(360000 * (day_of_year - 81), 365)
    IN  60 * (RoundDiv(9870 * Sin(2 * B), SCALE)
                - (RoundDiv(7530 * Cos(B), SCALE) - RoundDiv(1500 * Sin(B), SCALE)))

calculate_equation_of_time_approximate(day_of_year) ==
    LET B                      == RoundDiv(360000 * (day_of_year - 81), 365)
        obliquity_component    == RoundDiv(9870 * Sin(2 * B), SCALE)
        eccentricity_component == RoundDiv(7530 * Cos(B), SCALE)
                                    - RoundDiv(1500 * Sin(B), SCALE)
    IN  obliquity_component - eccentricity_component

\* astropy's get_sun(Time(dt)).dec.degree: the ephemeris declination, which
\* differs from the sine-wave approximation
get_sun_dec(dt) ==
    LET angle == RoundDiv(360000 * (283 + tm_yday(dt)), 365) + 250 * (dt.hour - 12)
    IN  RoundDiv(23440 * Sin(angle), SCALE)

\* astropy's get_sun(Time(dt)).ra.hour, thousandths of an hour: the mean
\* longitude of the sun less the equation of time
get_sun_ra(dt) ==
    (RoundDiv(2400000 * (tm_yday(dt) - 80), 36525)
       - RoundDiv(calculate_equation_of_time_approximate(tm_yday(dt)), 60)) % 24000

\* the equation of time from the right ascension, thousandths of a minute
eot_from_right_ascension(dt) ==
    LET ra_hours         == get_sun_ra(dt)
        mean_solar_hours == RoundDiv(2400000 * (tm_yday(dt) - 1), 36525)
        eot_hours        == (ra_hours - mean_solar_hours) % 24000
    IN  (IF eot_hours > 12000 THEN eot_hours - 24000 ELSE eot_hours) * 4

\* a high-precision calculation that returns the equation of time it derived
\* from the right ascension
calculate_high_precision_ra(available, dt, provider_ok) ==
    IF ~available THEN Raise("RuntimeError")
    ELSE IF ~provider_ok THEN Raise("ProviderError")
    ELSE Return(<<get_sun_dec(dt), eot_from_right_ascension(dt)>>)

\* provider_ok: whether the ephemeris provider answers this request
calculate_high_precision(available, dt, provider_ok) ==
    IF ~available THEN Raise("RuntimeError")
    ELSE IF ~provider_ok THEN Raise("ProviderError")
    ELSE LET declination == get_sun_dec(dt)
             from_ra     == eot_from_right_ascension(dt)
             day_of_year == tm_yday(dt)
             eot_minutes == calculate_equation_of_time_approximate(day_of_year)
         IN  Return(<<declination, eot_minutes>>)

calculate(mode, available, date, provider_ok) ==
    LET day_of_year == tm_yday(date)
    IN  IF mode = "approximate"
        THEN Return([declination |-> calculate_declination_approximate(day_of_year),
                     eot         |-> calculate_equation_of_time_approximate(day_of_year),
                     day_of_year |-> day_of_year,
                     date        |-> date])
        ELSE IF mode = "high-precision"
        THEN LET hp == calculate_high_precision(available, date, provider_ok)
             IN  IF Raised(hp) THEN hp
                 ELSE Return([declination |-> hp.value[1],
                              eot         |-> hp.value[2],
                              day_of_year |-> day_of_year,
                              date        |-> date])
        ELSE Raise("ValueError")

\* calculate_year(self, hour=12, minute=0, days=365)
DefaultDays == 365

\* range(1, days): a year that starts counting at day 1
RangeFromOne(days) == [i \in 1..(IF days > 1 THEN days - 1 ELSE 0) |-> i]

\* range(days)
Range(days) == [i \in 1..(IF days > 0 THEN days ELSE 0) |-> i - 1]

calculate_year(mode, year, available, hour, minute, days, provider_ok) ==
    LET start_date == DateTime(year, 1, 1, hour, minute)
        results    == [i \in DOMAIN Range(days) |->
                         calculate(mode, available,
                                   AddDays(start_date, Range(days)[i]), provider_ok)]
    IN  IF \E i \in DOMAIN results : Raised(results[i])
        THEN results[CHOOSE i \in DOMAIN results : Raised(results[i])]
        ELSE Return([i \in DOMAIN results |-> results[i].value])

(***************************************************************************)
(* SkyMapper                                                               *)
(***************************************************************************)

\* an optional argument: None, or a value
None == [some |-> FALSE, v |-> 0]

Some(v) == [some |-> TRUE, v |-> v]

\* round(n / d) of Python 3, d > 0: to nearest, a tie to the even integer
PyRound(n, d) ==
    LET q == n \div d
        r == n % d
    IN  IF 2 * r < d THEN q
        ELSE IF 2 * r > d THEN q + 1
        ELSE IF q % 2 = 0 THEN q ELSE q + 1

\* a constructor that takes a given offset of 0 for a missing one
SkyMapperFalsy(latitude, longitude, timezone_offset) ==
    [latitude        |-> latitude,
     longitude       |-> longitude,
     timezone_offset |-> IF ~timezone_offset.some \/ timezone_offset.v = 0
                         THEN PyRound(longitude, 15000)
                         ELSE timezone_offset.v]

\* SkyMapper(latitude, longitude, timezone_offset): timezone_offset in hours
SkyMapper(latitude, longitude, timezone_offset) ==
    [latitude        |-> latitude,
     longitude       |-> longitude,
     timezone_offset |-> IF ~timezone_offset.some THEN PyRound(longitude, 15000)
                         ELSE timezone_offset.v]

\* a conversion that takes a given longitude of 0 for a missing one
equation_of_time_to_hour_angle_falsy(self, eot_minutes, hour, minute, longitude) ==
    LET lon == IF ~longitude.some \/ longitude.v = 0 THEN self.longitude
               ELSE longitude.v
    IN  (hour - 12) * 15000 + minute * 250 + RoundDiv(eot_minutes, 4)
          + (lon - self.timezone_offset * 15000)

\* angles in thousandths of a degree, eot_minutes in thousandths of a minute
equation_of_time_to_hour_angle(self, eot_minutes, hour, minute, longitude) ==
    LET lon                  == IF ~longitude.some THEN self.longitude ELSE longitude.v
        hour_angle_from_time == (hour - 12) * 15000 + minute * 250
        eot_degrees          == RoundDiv(eot_minutes, 4)
        timezone_meridian    == self.timezone_offset * 15000
        longitude_correction == lon - timezone_meridian
    IN  hour_angle_from_time + eot_degrees + longitude_correction

calculate_altitude(self, declination, hour_angle) ==
    LET sin_altitude == Mul(Sin(self.latitude), Sin(declination))
                          + Mul(Mul(Cos(self.latitude), Cos(declination)),
                                Cos(hour_angle))
    IN  ArcSin(sin_altitude)

\* np.cos(np.radians(altitude)) as a divisor: positive for every double in
\* [-90, 90] (at 90.0 it is 6.1e-17), so it is at least the smallest
\* positive fixed-point value
CosDivisor(altitude) == Max2(Cos(altitude), 1)

\* altitude is a double that may be not-a-number; so is the result
calculate_azimuth(self, declination, hour_angle, altitude) ==
    IF altitude.nan THEN NaN
    ELSE LET cos_alt     == CosDivisor(altitude.v)
             sin_azimuth == RoundDiv(Mul(Cos(declination), Sin(hour_angle)) * SCALE,
                                     cos_alt)
             cos_azimuth == RoundDiv((Mul(Mul(Cos(declination), Cos(hour_angle)),
                                          Sin(self.latitude))
                                      - Mul(Sin(declination), Cos(self.latitude)))
                                     * SCALE, cos_alt)
             azimuth     == ArcTan2(sin_azimuth, cos_azimuth)
         IN  Num((azimuth + 180000) % 360000)

calculate_max_altitude(self, declination) == 90000 - Abs(self.latitude - declination)

\* calc_result: [declination, eot, day_of_year, date]
map_single_point(self, calc_result) ==
    LET declination == calc_result.declination
        eot         == calc_result.eot
        date        == calc_result.date
        hour_angle  == equation_of_time_to_hour_angle(self, eot, date.hour,
                                                      date.minute, None)
        altitude    == calculate_altitude(self, declination, hour_angle)
        azimuth     == calculate_azimuth(self, declination, hour_angle, altitude)
    IN  [declination |-> declination,
         eot         |-> eot,
         day_of_year |-> calc_result.day_of_year,
         date        |-> date,
         altitude    |-> altitude,
         azimuth     |-> azimuth,
         hour_angle  |-> hour_angle]

map_to_horizon(self, calc_results) ==
    [i \in DOMAIN calc_results |-> map_single_point(self, calc_results[i])]

\* a projection that writes altitude, azimuth and hour_angle into the record
\* it was given
calc_result_updated(self, calc_result) == map_single_point(self, calc_result)

\* the record given to map_single_point as the call leaves it: the update
\* goes to result, the copy of calc_result
calc_result_after(self, calc_result) == calc_result

\* (hour, minute) of solar noon; // and % of Python take the floor
get_solar_noon_time(self, eot_minutes) ==
    LET timezone_meridian        == self.timezone_offset * 15000
        longitude_correction_deg == self.longitude - timezone_meridian
        longitude_correction_min == longitude_correction_deg * 4
        total_correction_min     == eot_minutes + longitude_correction_min
        noon_minutes             == 12 * 60 * 1000 + total_correction_min
        hour                     == (noon_minutes \div 60000) % 24
        minute                   == (noon_minutes % 60000) \div 1000
    IN  <<hour, minute>>

\* -tan(latitude) * tan(declination), kept within the integers of the model:
\* a product beyond TanHuge is TanHuge with its sign
CosSunriseHourAngle(latitude, declination) ==
    LET a == -Tan(latitude)
        b == Tan(declination)
    IN  IF a = 0 \/ b = 0 THEN 0
        ELSE IF Abs(a) > TanHuge \div Abs(b) THEN Sign(a) * Sign(b) * TanHuge
        ELSE Mul(a, b)

\* the pair (None, None)
NoSunriseSunset == [none |-> TRUE, sunrise |-> NaN, sunset |-> NaN]

\* a sunrise computation whose guard forgets the absolute value
get_sunrise_sunset_signed(self, declination) ==
    LET cos_h == CosSunriseHourAngle(self.latitude, declination)
    IN  IF cos_h > SCALE THEN NoSunriseSunset
        ELSE LET h_deg == ArcCos(cos_h)
             IN  [none    |-> FALSE,
                  sunrise |-> IF h_deg.nan THEN NaN ELSE Num(-h_deg.v),
                  sunset  |-> h_deg]

get_sunrise_sunset_approx(self, declination) ==
    LET cos_h == CosSunriseHourAngle(self.latitude, declination)
    IN  IF Abs(cos_h) > SCALE THEN NoSunriseSunset
        ELSE LET h_deg == ArcCos(cos_h)
             IN  [none    |-> FALSE,
                  sunrise |-> IF h_deg.nan THEN NaN ELSE Num(-h_deg.v),
                  sunset  |-> h_deg]

(***************************************************************************)
(* ImageAnchorer._detect_sun_position                                      *)
(***************************************************************************)

\* img: [ndim |-> 2 or 3, pixels |-> rows of pixels]; a pixel is the tuple of
\* its channels, of a 2-D image the tuple of its one value
Height(img) == Len(img.pixels)

Width(img) == Len(img.pixels[1])

\* cells are <<row, column>>, counted from 0 as numpy does
Cells(img) == (0..(Height(img) - 1)) \X (0..(Width(img) - 1))

\* gray = np.max(img_array, axis=2) for a 3-D array, the array itself otherwise
Gray(img, cell) ==
    LET p == img.pixels[cell[1] + 1][cell[2] + 1]
    IN  IF img.ndim = 3
        THEN CHOOSE m \in {p[i] : i \in DOMAIN p} : \A i \in DOMAIN p : m >= p[i]
        ELSE p[1]

\* gray.max()
MaxVal(img) ==
    CHOOSE m \in {Gray(img, c) : c \in Cells(img)} :
        \A c \in Cells(img) : m >= Gray(img, c)

\* bright_mask = gray >= max_val * 0.999
BrightMask(img) ==
    LET max_val == MaxVal(img)
    IN  {c \in Cells(img) : Gray(img, c) * 1000 >= max_val * 999}

\* position of a cell in row-major order
Raster(img, cell) == cell[1] * Width(img) + cell[2]

\* np.unravel_index(gray.argmax(), gray.shape): the first maximum in
\* row-major order
ArgMax(img) ==
    LET max_val == MaxVal(img)
    IN  CHOOSE c \in Cells(img) :
            /\ Gray(img, c) = max_val
            /\ \A e \in Cells(img) : Gray(img, e) = max_val
                                        => Raster(img, c) <= Raster(img, e)

\* cells that share an edge (the default structure of ndimage.label)
Adjacent(c, e) ==
    \/ c[1] = e[1] /\ Abs(c[2] - e[2]) = 1
    \/ c[2] = e[2] /\ Abs(c[1] - e[1]) = 1

\* the cells of mask connected to S
RECURSIVE Grow(_, _)
Grow(S, mask) ==
    LET T == S \cup {e \in mask : \E c \in S : Adjacent(c, e)}
    IN  IF T = S THEN S ELSE Grow(T, mask)

\* ndimage.label(bright_mask): the connected components of the mask; the
\* label of a component is its rank by first cell in row-major order
Components(mask) == {Grow({c}, mask) : c \in mask}

FirstCell(img, K) ==
    CHOOSE c \in K : \A e \in K : Raster(img, c) <= Raster(img, e)

\* a selection of the smallest component
SmallestBlob(img, mask) ==
    CHOOSE K \in Components(mask) :
        \A L \in Components(mask) :
            \/ Cardinality(K) < Cardinality(L)
            \/ /\ Cardinality(K) = Cardinality(L)
               /\ Raster(img, FirstCell(img, K)) <= Raster(img, FirstCell(img, L))

\* sizes[1:].argmax() + 1: the largest component, the lowest label on a tie
LargestBlob(img, mask) ==
    CHOOSE K \in Components(mask) :
        \A L \in Components(mask) :
            \/ Cardinality(K) > Cardinality(L)
            \/ /\ Cardinality(K) = Cardinality(L)
               /\ Raster(img, FirstCell(img, K)) <= Raster(img, FirstCell(img, L))

\* the sum over the cells of K of gray * w(cell): w is 1 for axis 0, the
\* row for axis 1, the column for axis 2
RECURSIVE WeightedSum(_, _, _)
WeightedSum(img, K, axis) ==
    IF K = {} THEN 0
    ELSE LET c == CHOOSE e \in K : TRUE
         IN  Gray(img, c) * (IF axis = 0 THEN 1 ELSE c[axis])
               + WeightedSum(img, K \ {c}, axis)

\* int(centroid) of K along axis, or the error of int(nan) and of
\* np.average when the weights sum to zero
Centroid(img, K, axis, zero_error) ==
    IF WeightedSum(img, K, 0) = 0 THEN Raise(zero_error)
    ELSE Return(TruncDiv(WeightedSum(img, K, axis), WeightedSum(img, K, 0)))

\* a pixel with the row in the place of the column
CentroidPixelSwapped(sun_x, sun_y) ==
    IF Raised(sun_x) THEN sun_x
    ELSE IF Raised(sun_y) THEN sun_y
    ELSE Return(<<sun_y.value, sun_x.value>>)

\* a pixel one column to the right of the centroid
CentroidPixelRight(sun_x, sun_y) ==
    IF Raised(sun_x) THEN sun_x
    ELSE IF Raised(sun_y) THEN sun_y
    ELSE Return(<<sun_x.value + 1, sun_y.value>>)

\* the pixel (sun_x, sun_y) from the two centroids
CentroidPixel(sun_x, sun_y) ==
    IF Raised(sun_x) THEN sun_x
    ELSE IF Raised(sun_y) THEN sun_y
    ELSE Return(<<sun_x.value, sun_y.value>>)

detect_sun_position(img, scipy_available) ==
    LET bright_mask == BrightMask(img)
        max_loc     == ArgMax(img)
    IN  IF scipy_available
        THEN IF bright_mask # {}
             THEN LET blob == LargestBlob(img, bright_mask)
                      nan  == "ValueError: cannot convert float NaN to integer"
                  IN  CentroidPixel(Centroid(img, blob, 2, nan),
                                    Centroid(img, blob, 1, nan))
             ELSE Return(<<max_loc[2], max_loc[1]>>)
        ELSE IF Cardinality(bright_mask) > 10
             THEN CentroidPixel(Centroid(img, bright_mask, 2, "ZeroDivisionError"),
                                Centroid(img, bright_mask, 1, "ZeroDivisionError"))
             ELSE Return(<<max_loc[2], max_loc[1]>>)

(***************************************************************************)
(* ImageAnchorer                                                           *)
(***************************************************************************)

\* a / b for doubles a, b with b # 0, rounded to nearest
SignedDiv(a, b) == IF b > 0 THEN RoundDiv(a, b) ELSE RoundDiv(-a, -b)

\* generate_analemma_points(self, days: int = 365)
GenerateDefaultDays == 365

\* ImageAnchorer.__init__ once the image is loaded; sun_pixel is None or a
\* pixel in thousandths of a pixel, detected the pixel _detect_sun_position
\* returns for the image
ImageAnchorer(image_width, image_height, anchor_datetime, latitude, longitude, sun_pixel, auto_detect_sun, detected) ==
    LET sky_mapper  == SkyMapper(latitude, longitude, None)
        calc_result == calculate("approximate", FALSE, anchor_datetime, TRUE).value
    IN  [image_width     |-> image_width,
         image_height    |-> image_height,
         anchor_datetime |-> anchor_datetime,
         latitude        |-> latitude,
         longitude       |-> longitude,
         sun_pixel       |-> IF ~sun_pixel.some /\ auto_detect_sun
                             THEN <<detected[1] * 1000, detected[2] * 1000>>
                             ELSE IF ~sun_pixel.some
                             THEN <<(image_width \div 2) * 1000,
                                    (image_height \div 2) * 1000>>
                             ELSE sun_pixel.v,
         year            |-> anchor_datetime.year,
         sky_mapper      |-> sky_mapper,
         anchor_data     |-> map_single_point(sky_mapper, calc_result)]

\* pixels / fov: a zero fov that is a Python float raises, one that is a
\* numpy double (as computed by calibrate_from_focal_length) gives infinity
PixelsPerDegree(pixels, fov, numpy_scalar) ==
    IF fov = 0
    THEN IF numpy_scalar THEN Return(Inf) ELSE Raise("ZeroDivisionError")
    ELSE Return(Num(SignedDiv(pixels * 100000, fov)))

\* the two scale factors after calibrate_from_field_of_view, and the outcome
\* of the call; az, alt: the factors before the call
calibrate_from_field_of_view(self, az, alt, horizontal_fov, vertical_fov, numpy_scalar) ==
    LET new_az  == PixelsPerDegree(self.image_width, horizontal_fov, numpy_scalar)
        new_alt == PixelsPerDegree(self.image_height, vertical_fov, numpy_scalar)
    IN  IF Raised(new_az) THEN [az |-> az, alt |-> alt, result |-> new_az]
        ELSE IF Raised(new_alt)
        THEN [az |-> Some(new_az.value), alt |-> alt, result |-> new_alt]
        ELSE [az     |-> Some(new_az.value),
              alt    |-> Some(new_alt.value),
              result |-> Return(<<>>)]

calibrate_from_focal_length(self, az, alt, focal_length_mm, sensor_width_mm, sensor_height_mm) ==
    IF 2 * focal_length_mm = 0
    THEN [az |-> az, alt |-> alt, result |-> Raise("ZeroDivisionError")]
    ELSE LET h_fov == 2 * ArcTan(sensor_width_mm, 2 * focal_length_mm)
             v_fov == 2 * ArcTan(sensor_height_mm, 2 * focal_length_mm)
         IN  calibrate_from_field_of_view(self, az, alt, h_fov, v_fov, TRUE)

\* int(pixel + delta * scale), pixel in thousandths of a pixel, delta in
\* thousandths of a degree
OffsetPixel(pixel, delta, scale) ==
    IF delta.nan \/ scale.nan \/ (scale.inf /\ delta.v = 0)
    THEN Raise("ValueError: cannot convert float NaN to integer")
    ELSE IF scale.inf
    THEN Raise("OverflowError: cannot convert float infinity to integer")
    ELSE Return(TruncDiv(pixel + RoundDiv(delta.v * scale.v, 100), 1000))

\* a - b for doubles that may be not-a-number
Minus(a, b) == IF a.nan \/ b.nan THEN NaN ELSE Num(a.v - b.v)

\* -a
Neg(a) == IF a.nan THEN NaN ELSE Num(-a.v)

\* a conversion whose y grows with the altitude
sky_to_pixel_upright(self, az, alt, altitude, azimuth) ==
    IF ~az.some THEN Raise("ValueError: Must calibrate")
    ELSE IF ~alt.some THEN Raise("TypeError")
    ELSE LET delta_az   == Minus(azimuth, self.anchor_data.azimuth)
             delta_alt  == Minus(altitude, self.anchor_data.altitude)
             x          == OffsetPixel(self.sun_pixel[1], delta_az, az.v)
             y          == OffsetPixel(self.sun_pixel[2], delta_alt, alt.v)
         IN  IF Raised(x) THEN x
             ELSE IF Raised(y) THEN y
             ELSE Return(<<x.value, y.value>>)

\* altitude, azimuth: doubles that may be not-a-number
sky_to_pixel(self, az, alt, altitude, azimuth) ==
    IF ~az.some THEN Raise("ValueError: Must calibrate")
    ELSE IF ~alt.some THEN Raise("TypeError")
    ELSE LET anchor_alt == self.anchor_data.altitude
             anchor_az  == self.anchor_data.azimuth
             delta_az   == Minus(azimuth, anchor_az)
             delta_alt  == Minus(altitude, anchor_alt)
             x          == OffsetPixel(self.sun_pixel[1], delta_az, az.v)
             y          == OffsetPixel(self.sun_pixel[2], Neg(delta_alt), alt.v)
         IN  IF Raised(x) THEN x
             ELSE IF Raised(y) THEN y
             ELSE Return(<<x.value, y.value>>)

\* point['altitude'] <= 0: a filter that also drops the horizon itself
BelowOrOnHorizon(point) == ~point.altitude.nan /\ point.altitude.v <= 0

\* point['altitude'] < 0: false for not-a-number
BelowHorizon(point) == ~point.altitude.nan /\ point.altitude.v < 0

\* the horizon data of the year at the anchor's clock time
YearSkyData(self, days) ==
    map_to_horizon(self.sky_mapper,
                   calculate_year("approximate", self.year, FALSE,
                                  self.anchor_datetime.hour,
                                  self.anchor_datetime.minute, days, TRUE).value)


(***************************************************************************)
(* The inputs of the model                                                 *)
(***************************************************************************)

\* the largest number of days asked of a year computation
MaxDays == 366

DaysArgs == {0, 1, DefaultDays, MaxDays}

Years == {2024, 2026}

Modes == {"approximate", "high-precision", "precise"}

\* clock times (hour, minute) of a year computation
ClockTimes == {<<12, 0>>, <<6, 30>>}

\* calculate_year over the inputs of the model, computed once
calculate_year_table ==
    [mode \in Modes |-> [year \in Years |-> [available \in BOOLEAN |->
        [clock \in ClockTimes |-> [days \in DaysArgs |-> [provider_ok \in BOOLEAN |->
            calculate_year(mode, year, available, clock[1], clock[2], days,
                           provider_ok)]]]]]]

\* the image of the anchorers: 400 x 300 pixels
ImageWidth == 400

ImageHeight == 300

\* a 3 x 4 image with a two-pixel sun on a dark sky
SunImage ==
    [ndim   |-> 2,
     pixels |-> << << <<10>>, <<10>>, <<10>>, <<10>> >>,
                   << <<10>>, <<10>>, <<250>>, <<250>> >>,
                   << <<10>>, <<10>>, <<10>>, <<10>> >> >>]

\* the constructor arguments of the anchorers of the model (anchor_datetime,
\* latitude, longitude, sun_pixel, auto_detect_sun): a summer noon at mid
\* latitude with a given pixel; a winter midnight with the center pixel;
\* sunrise on the equator with a fractional pixel; a polar-circle noon in a
\* leap year with a detected pixel; and the sun overhead with the center pixel
AnchorerArgs ==
    << <<DateTime(2026, 6, 21, 12, 0), 40100, -88200, Some(<<200000, 150000>>), TRUE>>,
       <<DateTime(2026, 1, 1, 0, 0), 40100, -88200, None, FALSE>>,
       <<DateTime(2026, 1, 1, 6, 0), 0, 1662, Some(<<100500, 200700>>), TRUE>>,
       <<DateTime(2024, 12, 21, 12, 0), 70000, 25000, None, TRUE>>,
       <<DateTime(2026, 2, 7, 12, 0), -15815, 4100, None, FALSE>> >>

\* the anchorer made with the k-th arguments, on an image of ImageWidth x
\* ImageHeight pixels whose detected sun is that of SunImage
AnchorerOf(k) ==
    ImageAnchorer(ImageWidth, ImageHeight, AnchorerArgs[k][1], AnchorerArgs[k][2],
                  AnchorerArgs[k][3], AnchorerArgs[k][4], AnchorerArgs[k][5],
                  detect_sun_position(SunImage, TRUE).value)

\* the anchorers of the model
Anchorers == {AnchorerOf(k) : k \in DOMAIN AnchorerArgs}

\* YearSkyData over the anchorers and day counts of the model, computed once
YearSkyTable ==
    [a \in Anchorers |-> [d \in DaysArgs |-> YearSkyData(a, d)]]

\* self.sky_mapper.map_to_horizon(self.calculator.calculate_year(...))
SkyData(self, days) == YearSkyTable[self][days]

\* the points of the days kept: the first error of sky_to_pixel, or the list
\* of the positions with their pixels
AnalemmaPoints(self, az, alt, kept) ==
    LET pixels == [i \in DOMAIN kept |->
                     sky_to_pixel(self, az, alt, kept[i].altitude, kept[i].azimuth)]
    IN  IF \E i \in DOMAIN pixels : Raised(pixels[i])
        THEN pixels[CHOOSE i \in DOMAIN pixels :
                      Raised(pixels[i]) /\ \A j \in 1..(i - 1) : ~Raised(pixels[j])]
        ELSE Return([i \in DOMAIN kept |->
                       [day_of_year |-> kept[i].day_of_year,
                        date        |-> kept[i].date,
                        altitude    |-> kept[i].altitude,
                        azimuth     |-> kept[i].azimuth,
                        pixel_x     |-> pixels[i].value[1],
                        pixel_y     |-> pixels[i].value[2]]])

generate_analemma_points(self, az, alt, days) ==
    AnalemmaPoints(self, az, alt,
                   SelectSeq(SkyData(self, days), LAMBDA point : ~BelowHorizon(point)))

\* the statistics overlay_analemma returns for the points it has drawn
OverlayStatistics(self, analemma_points) ==
    IF Raised(analemma_points) THEN analemma_points
    ELSE LET total_points    == 365
             points_drawn    == Len(analemma_points.value)
             points_filtered == total_points - points_drawn
         IN  Return([points_drawn    |-> points_drawn,
                     points_filtered |-> points_filtered,
                     sun_pixel       |-> self.sun_pixel,
                     sun_altitude    |-> self.anchor_data.altitude,
                     sun_azimuth     |-> self.anchor_data.azimuth])

overlay_analemma(self, az, alt) ==
    OverlayStatistics(self,
                      generate_analemma_points(self, az, alt, GenerateDefaultDays))

\* min and max of a non-empty sequence of numbers
SeqMin(q) == CHOOSE m \in {q[i] : i \in DOMAIN q} : \A i \in DOMAIN q : m <= q[i]

SeqMax(q) == CHOOSE m \in {q[i] : i \in DOMAIN q} : \A i \in DOMAIN q : m >= q[i]

\* the ranges and spans of the positions of the points
PointStatistics(self, analemma_points) ==
    IF Raised(analemma_points) THEN analemma_points
    ELSE IF Len(analemma_points.value) = 0
    THEN Raise("ValueError: min() arg is an empty sequence")
    ELSE LET altitudes == [i \in DOMAIN analemma_points.value |->
                             analemma_points.value[i].altitude.v]
             azimuths  == [i \in DOMAIN analemma_points.value |->
                             analemma_points.value[i].azimuth.v]
         IN  Return([altitude_range  |-> <<SeqMin(altitudes), SeqMax(altitudes)>>,
                     azimuth_range   |-> <<SeqMin(azimuths), SeqMax(azimuths)>>,
                     altitude_span   |-> SeqMax(altitudes) - SeqMin(altitudes),
                     azimuth_span    |-> SeqMax(azimuths) - SeqMin(azimuths),
                     anchor_altitude |-> self.anchor_data.altitude,
                     anchor_azimuth  |-> self.anchor_data.azimuth])

get_statistics(self, az, alt) ==
    PointStatistics(self, generate_analemma_points(self, az, alt, GenerateDefaultDays))

(***************************************************************************)
(* The state                                                               *)
(***************************************************************************)

VARIABLES
    ASTROPY_AVAILABLE,      \* calculator.py: whether astropy could be imported
    calculator,             \* the AnalemmaCalculator: [mode, year], or None
    mapper,                 \* the SkyMapper, or None
    anchorer,               \* the ImageAnchorer, or None
    pixels_per_degree_az,   \* its scale factors: None, or a double in
    pixels_per_degree_alt,  \*   hundredths of a pixel per degree
    image,                  \* the image given to the sun detector, or None
    has_scipy,              \* whether scipy.ndimage can be imported
    last                    \* the last call: [op, args, result]

vars == <<ASTROPY_AVAILABLE, calculator, mapper, anchorer, pixels_per_degree_az,
          pixels_per_degree_alt, image, has_scipy, last>>

Call(op, args, result) == [op |-> op, args |-> args, result |-> result]

(***************************************************************************)
(* ImageAnchorer: calibration and pixel mapping                            *)
(***************************************************************************)

\* (horizontal_fov, vertical_fov), thousandths of a degree
FovArgs == {<<60000, 40000>>, <<-60000, -40000>>, <<0, 40000>>, <<60000, 0>>}

\* (focal_length_mm, sensor_width_mm, sensor_height_mm), tenths of a millimetre
FocalArgs == {<<500, 360, 240>>, <<-500, 360, 240>>, <<0, 360, 240>>,
              <<500, 0, 240>>}

\* (altitude, azimuth) asked of sky_to_pixel: the anchor's own position and
\* two others
SkyPositions(self) ==
    {<<self.anchor_data.altitude, self.anchor_data.azimuth>>,
     <<Num(45000), Num(180000)>>, <<Num(-10000), Num(359000)>>}

AnchorerVars == <<ASTROPY_AVAILABLE, calculator, mapper, anchorer, image, has_scipy>>

Init ==
    /\ ASTROPY_AVAILABLE = FALSE
    /\ calculator = None
    /\ mapper = None
    /\ anchorer \in Anchorers
    /\ pixels_per_degree_az = None
    /\ pixels_per_degree_alt = None
    /\ image = None
    /\ has_scipy = FALSE
    /\ last = Call("__init__", <<>>, Return(<<>>))

CalibrateFromFieldOfView ==
    \E fov \in FovArgs :
        LET r == calibrate_from_field_of_view(anchorer, pixels_per_degree_az,
                                              pixels_per_degree_alt,
                                              fov[1], fov[2], FALSE)
        IN  /\ pixels_per_degree_az' = r.az
            /\ pixels_per_degree_alt' = r.alt
            /\ last' = Call("calibrate_from_field_of_view", fov, r.result)
            /\ UNCHANGED AnchorerVars

CalibrateFromFocalLength ==
    \E lens \in FocalArgs :
        LET r == calibrate_from_focal_length(anchorer, pixels_per_degree_az,
                                             pixels_per_degree_alt,
                                             lens[1], lens[2], lens[3])
        IN  /\ pixels_per_degree_az' = r.az
            /\ pixels_per_degree_alt' = r.alt
            /\ last' = Call("calibrate_from_focal_length", lens, r.result)
            /\ UNCHANGED AnchorerVars

SkyToPixel ==
    \E pos \in SkyPositions(anchorer) :
        /\ last' = Call("sky_to_pixel", pos,
                        sky_to_pixel(anchorer, pixels_per_degree_az,
                                     pixels_per_degree_alt, pos[1], pos[2]))
        /\ UNCHANGED <<AnchorerVars, pixels_per_degree_az, pixels_per_degree_alt>>

GenerateAnalemmaPoints ==
    \E d \in DaysArgs :
        /\ last' = Call("generate_analemma_points", <<d>>,
                        generate_analemma_points(anchorer, pixels_per_degree_az,
                                                 pixels_per_degree_alt, d))
        /\ UNCHANGED <<AnchorerVars, pixels_per_degree_az, pixels_per_degree_alt>>

OverlayAnalemma ==
    /\ last' = Call("overlay_analemma", <<>>,
                    overlay_analemma(anchorer, pixels_per_degree_az,
                                     pixels_per_degree_alt))
    /\ UNCHANGED <<AnchorerVars, pixels_per_degree_az, pixels_per_degree_alt>>

GetStatistics ==
    /\ last' = Call("get_statistics", <<>>,
                    get_statistics(anchorer, pixels_per_degree_az,
                                   pixels_per_degree_alt))
    /\ UNCHANGED <<AnchorerVars, pixels_per_degree_az, pixels_per_degree_alt>>

Next ==
    \/ CalibrateFromFieldOfView
    \/ CalibrateFromFocalLength
    \/ SkyToPixel
    \/ GenerateAnalemmaPoints
    \/ OverlayAnalemma
    \/ GetStatistics

Spec == Init /\ [][Next]_vars

(***************************************************************************)
(* AnalemmaCalculator: construction and calculation                        *)
(***************************************************************************)

\* a constructor that does not look at the provider
AnalemmaCalculatorUnchecked(mode, year, available) ==
    Return([mode |-> mode, year |-> IF year.some THEN year.v ELSE NowYear])

\* AnalemmaCalculator.__init__: the object, or the error raised; year is
\* None or a year
AnalemmaCalculator(mode, year, available) ==
    IF mode = "high-precision" /\ ~available THEN Raise("RuntimeError")
    ELSE Return([mode |-> mode, year |-> IF year.some THEN year.v ELSE NowYear])

\* the mode of the calculator after compare_modes, and the outcome of the call
compare_modes(self, available, date, provider_ok) ==
    IF ~available
    THEN [mode |-> self.mode, result |-> Raise("RuntimeError")]
    ELSE LET original_mode  == self.mode
             approx_result  == calculate("approximate", available, date, provider_ok)
             precise_result == calculate("high-precision", available, date, provider_ok)
         IN  IF Raised(approx_result)
             THEN [mode |-> "approximate", result |-> approx_result]
             ELSE IF Raised(precise_result)
             THEN [mode |-> "high-precision", result |-> precise_result]
             ELSE [mode   |-> original_mode,
                   result |-> Return(
                       [approximate    |-> approx_result.value,
                        high_precision |-> precise_result.value,
                        differences    |->
                            [declination_diff |->
                                 Abs(precise_result.value.declination
                                       - approx_result.value.declination),
                             eot_diff |->
                                 Abs(precise_result.value.eot
                                       - approx_result.value.eot)]])]

\* calculate_year by its table where the table has the arguments
CalculateYear(mode, year, available, clock, days, provider_ok) ==
    IF mode \in Modes /\ year \in Years /\ clock \in ClockTimes /\ days \in DaysArgs
    THEN calculate_year_table[mode][year][available][clock][days][provider_ok]
    ELSE calculate_year(mode, year, available, clock[1], clock[2], days, provider_ok)

\* the timestamps asked of calculate and compare_modes
Dates == {DateTime(2026, 6, 21, 12, 0), DateTime(2024, 2, 29, 6, 30),
          DateTime(2026, 2, 7, 12, 0)}

YearArgs == {None} \cup {Some(yr) : yr \in Years}

\* the days argument of calculate_year: omitted, or a number
DaysOrDefault == {None} \cup {Some(d) : d \in DaysArgs}

CalcVars == <<mapper, anchorer, pixels_per_degree_az, pixels_per_degree_alt,
              image, has_scipy>>

InitCalc ==
    /\ ASTROPY_AVAILABLE \in BOOLEAN
    /\ calculator = None
    /\ mapper = None
    /\ anchorer = None
    /\ pixels_per_degree_az = None
    /\ pixels_per_degree_alt = None
    /\ image = None
    /\ has_scipy = FALSE
    /\ last = Call("import", <<>>, Return(<<>>))

NewCalculator ==
    \E m \in Modes, yr \in YearArgs :
        LET r == AnalemmaCalculator(m, yr, ASTROPY_AVAILABLE)
        IN  /\ calculator' = IF Raised(r) THEN calculator ELSE Some(r.value)
            /\ last' = Call("__init__", <<m, yr>>, r)
            /\ UNCHANGED <<ASTROPY_AVAILABLE, CalcVars>>

Calculate ==
    /\ calculator.some
    /\ \E date \in Dates, provider_ok \in BOOLEAN :
          last' = Call("calculate", <<date, provider_ok>>,
                       calculate(calculator.v.mode, ASTROPY_AVAILABLE, date,
                                 provider_ok))
    /\ UNCHANGED <<ASTROPY_AVAILABLE, calculator, CalcVars>>

CalculateYearCall ==
    /\ calculator.some
    /\ \E clock \in ClockTimes, d \in DaysOrDefault, provider_ok \in BOOLEAN :
          last' = Call("calculate_year", <<clock, d, provider_ok>>,
                       CalculateYear(calculator.v.mode, calculator.v.year,
                                     ASTROPY_AVAILABLE, clock,
                                     IF d.some THEN d.v ELSE DefaultDays,
                                     provider_ok))
    /\ UNCHANGED <<ASTROPY_AVAILABLE, calculator, CalcVars>>

CompareModes ==
    /\ calculator.some
    /\ \E date \in Dates, provider_ok \in BOOLEAN :
          LET r == compare_modes(calculator.v, ASTROPY_AVAILABLE, date, provider_ok)
          IN  /\ calculator' = Some([calculator.v EXCEPT !.mode = r.mode])
              /\ last' = Call("compare_modes", <<date, provider_ok>>, r.result)
    /\ UNCHANGED <<ASTROPY_AVAILABLE, CalcVars>>

NextCalc ==
    \/ NewCalculator
    \/ Calculate
    \/ CalculateYearCall
    \/ CompareModes

SpecCalc == InitCalc /\ [][NextCalc]_vars

(***************************************************************************)
(* AnalemmaCalculator: the approximate formulas day by day                 *)
(***************************************************************************)

\* the day numbers asked of the approximate formulas
DaysOfYear == 1..MaxDays

ApproxVars == <<ASTROPY_AVAILABLE, calculator, mapper, anchorer, pixels_per_degree_az,
                pixels_per_degree_alt, image, has_scipy>>

\* AnalemmaCalculator(mode='approximate', year=yr)
InitApprox ==
    /\ ASTROPY_AVAILABLE = FALSE
    /\ \E yr \in Years :
          /\ calculator = Some(AnalemmaCalculator("approximate", Some(yr), FALSE).value)
          /\ last = Call("__init__", <<"approximate", Some(yr)>>,
                         AnalemmaCalculator("approximate", Some(yr), FALSE))
    /\ mapper = None
    /\ anchorer = None
    /\ pixels_per_degree_az = None
    /\ pixels_per_degree_alt = None
    /\ image = None
    /\ has_scipy = FALSE

CalculateDeclinationApproximate ==
    /\ \E day \in DaysOfYear :
          last' = Call("calculate_declination_approximate", <<day>>,
                       Return(calculate_declination_approximate(day)))
    /\ UNCHANGED ApproxVars

CalculateEquationOfTimeApproximate ==
    /\ \E day \in DaysOfYear :
          last' = Call("calculate_equation_of_time_approximate", <<day>>,
                       Return(calculate_equation_of_time_approximate(day)))
    /\ UNCHANGED ApproxVars

ApproximateYear ==
    /\ \E clock \in ClockTimes, d \in DaysArgs :
          last' = Call("calculate_year", <<clock, Some(d), TRUE>>,
                       CalculateYear(calculator.v.mode, calculator.v.year,
                                     ASTROPY_AVAILABLE, clock, d, TRUE))
    /\ UNCHANGED ApproxVars

NextApprox ==
    \/ CalculateDeclinationApproximate
    \/ CalculateEquationOfTimeApproximate
    \/ ApproximateYear

SpecApprox == InitApprox /\ [][NextApprox]_vars

(***************************************************************************)
(* SkyMapper: projection to the horizon, sunrise and sunset                *)
(***************************************************************************)

\* observers: the poles, the equator, a mid latitude, the latitude of the
\* sun on 7 February, and the edge of the polar circle
Latitudes == {-90000, -15815, 0, 40100, 66550, 90000}

Longitudes == {-88200, 0, 4100}

TimezoneArgs == {None, Some(0), Some(-6)}

Mappers ==
    {SkyMapper(lat, lon, tz) : lat \in Latitudes, lon \in Longitudes,
                               tz \in TimezoneArgs}

\* records given to map_single_point: results of calculate, and the sun on
\* the celestial equator at noon and at midnight with no equation of time
CalcResults ==
    {calculate("approximate", FALSE, date, TRUE).value : date \in Dates}
      \cup {[declination |-> 0, eot |-> 0, day_of_year |-> 81,
             date |-> DateTime(2026, 3, 22, hr, 0)] : hr \in {0, 12}}

\* the year sequences given to map_to_horizon
YearResults(days) ==
    CalculateYear("approximate", 2026, FALSE, <<12, 0>>, days, TRUE).value

MapDays == {0, 1, DefaultDays}

\* the year sequences, computed once
MapYearArgs == [days \in MapDays |-> YearResults(days)]

\* map_to_horizon over the observers and year sequences of the model,
\* computed once
map_to_horizon_table ==
    [lat \in Latitudes |-> [lon \in Longitudes |-> [tz \in {-6, 0} |->
        [days \in MapDays |->
            map_to_horizon([latitude |-> lat, longitude |-> lon,
                            timezone_offset |-> tz], MapYearArgs[days])]]]]

MapYear(self, days) ==
    IF /\ self.latitude \in Latitudes
       /\ self.longitude \in Longitudes
       /\ self.timezone_offset \in {-6, 0}
       /\ days \in MapDays
    THEN map_to_horizon_table[self.latitude][self.longitude][self.timezone_offset][days]
    ELSE map_to_horizon(self, MapYearArgs[days])

Declinations == {-23450, -15815, 0, 23450}

HourAngles == {-180000, 0, 45000}

Altitudes == {Num(-90000), Num(30000), Num(90000), NaN}

SkyVars == <<ASTROPY_AVAILABLE, calculator, mapper, anchorer, pixels_per_degree_az,
             pixels_per_degree_alt, image, has_scipy>>

InitSky ==
    /\ ASTROPY_AVAILABLE = FALSE
    /\ calculator = None
    /\ mapper \in {Some(mp) : mp \in Mappers}
    /\ anchorer = None
    /\ pixels_per_degree_az = None
    /\ pixels_per_degree_alt = None
    /\ image = None
    /\ has_scipy = FALSE
    /\ last = Call("__init__", <<>>, Return(<<>>))

NewSkyMapper ==
    /\ \E lat \in Latitudes, lon \in Longitudes, tz \in TimezoneArgs :
          /\ mapper' = Some(SkyMapper(lat, lon, tz))
          /\ last' = Call("SkyMapper", <<lat, lon, tz>>, Return(<<>>))
    /\ UNCHANGED <<ASTROPY_AVAILABLE, calculator, anchorer, pixels_per_degree_az,
                   pixels_per_degree_alt, image, has_scipy>>

CalculateAltitude ==
    /\ \E dec \in Declinations, ha \in HourAngles :
          last' = Call("calculate_altitude", <<dec, ha>>,
                       Return(calculate_altitude(mapper.v, dec, ha)))
    /\ UNCHANGED SkyVars

CalculateAzimuth ==
    /\ \E dec \in Declinations, ha \in HourAngles, altitude \in Altitudes :
          last' = Call("calculate_azimuth", <<dec, ha, altitude>>,
                       Return(calculate_azimuth(mapper.v, dec, ha, altitude)))
    /\ UNCHANGED SkyVars

MapSinglePoint ==
    /\ \E calc_result \in CalcResults :
          last' = Call("map_single_point",
                       <<calc_result_after(mapper.v, calc_result)>>,
                       Return(map_single_point(mapper.v, calc_result)))
    /\ UNCHANGED SkyVars

\* the records given to map_to_horizon as the call leaves them
calc_results_after(self, calc_results) ==
    [i \in DOMAIN calc_results |-> calc_result_after(self, calc_results[i])]

MapToHorizon ==
    /\ \E d \in MapDays :
          last' = Call("map_to_horizon",
                       <<d, calc_results_after(mapper.v, MapYearArgs[d])>>,
                       Return(MapYear(mapper.v, d)))
    /\ UNCHANGED SkyVars

GetSunriseSunsetApprox ==
    /\ \E dec \in Declinations :
          last' = Call("get_sunrise_sunset_approx", <<dec>>,
                       Return(get_sunrise_sunset_approx(mapper.v, dec)))
    /\ UNCHANGED SkyVars

NextSky ==
    \/ NewSkyMapper
    \/ CalculateAltitude
    \/ CalculateAzimuth
    \/ MapSinglePoint
    \/ MapToHorizon
    \/ GetSunriseSunsetApprox

SpecSky == InitSky /\ [][NextSky]_vars

(***************************************************************************)
(* SkyMapper: hour angle and solar noon                                    *)
(***************************************************************************)

EquationOfTimeToHourAngle ==
    /\ \E eot \in {-16448, 0, 14602}, hour \in {0, 11, 12, 23}, minute \in {0, 59},
          lon \in {None, Some(0), Some(4100)} :
          last' = Call("equation_of_time_to_hour_angle", <<eot, hour, minute, lon>>,
                       Return(equation_of_time_to_hour_angle(mapper.v, eot, hour,
                                                             minute, lon)))
    /\ UNCHANGED SkyVars

GetSolarNoonTime ==
    /\ \E eot \in {-16448, -3000, 0, 250, 14602} :
          last' = Call("get_solar_noon_time", <<eot>>,
                       Return(get_solar_noon_time(mapper.v, eot)))
    /\ UNCHANGED SkyVars

NextNoon ==
    \/ NewSkyMapper
    \/ EquationOfTimeToHourAngle
    \/ GetSolarNoonTime

SpecNoon == InitSky /\ [][NextNoon]_vars

(***************************************************************************)
(* The command line: analemma_cli.py anchor                                *)
(***************************************************************************)

\* the rest of cmd_anchor once get_statistics has been called: calls is the
\* sequence of <<method, outcome>> made so far on the anchorer, overlay the
\* outcome of overlay_analemma if it is called; an exception that is not
\* caught ends the process with status 1
cmd_anchor_statistics(az, alt, calls, stats, overlay) ==
    IF Raised(stats)
    THEN [az |-> az, alt |-> alt, status |-> 1,
          calls |-> Append(calls, <<"get_statistics", stats.outcome>>)]
    ELSE [az |-> az, alt |-> alt, status |-> IF Raised(overlay) THEN 1 ELSE 0,
          calls |-> calls \o << <<"get_statistics", "ok">>,
                                 <<"overlay_analemma", overlay.outcome>> >>]

\* the rest of cmd_anchor once the calibration r has been called
cmd_anchor_calibrated(self, method, r) ==
    IF Raised(r.result)
    THEN [az |-> r.az, alt |-> r.alt, status |-> 1,
          calls |-> << <<method, r.result.outcome>> >>]
    ELSE cmd_anchor_statistics(r.az, r.alt, << <<method, "ok">> >>,
                               get_statistics(self, r.az, r.alt),
                               overlay_analemma(self, r.az, r.alt))

\* a command that goes on to the statistics when no calibration is given
cmd_anchor_unchecked(args, self) ==
    IF args.datetime = "noon"
    THEN [az |-> None, alt |-> None, status |-> 1, calls |-> <<>>]
    ELSE IF args.focal_length = 0 /\ args.fov = <<>>
    THEN cmd_anchor_statistics(None, None, <<>>, get_statistics(self, None, None),
                               overlay_analemma(self, None, None))
    ELSE cmd_anchor_calibrated(self,
             IF args.focal_length # 0 THEN "calibrate_from_focal_length"
             ELSE "calibrate_from_field_of_view",
             IF args.focal_length # 0
             THEN calibrate_from_focal_length(self, None, None, args.focal_length,
                                              args.sensor_width, args.sensor_height)
             ELSE calibrate_from_field_of_view(self, None, None, args.fov[1],
                                               args.fov[2], FALSE))

\* cmd_anchor(args) with the anchorer that ImageAnchorer makes of the image,
\* date and place: the factors it leaves on the anchorer, the calls it made
\* and the exit status.  args.focal_length is 0 when absent (None and 0.0
\* are both false), args.fov is <<>> when absent, the two numbers of the
\* string otherwise
cmd_anchor(args, self) ==
    IF args.datetime = "noon"
    THEN [az |-> None, alt |-> None, status |-> 1, calls |-> <<>>]
    ELSE IF args.focal_length = 0 /\ args.fov = <<>>
    THEN [az |-> None, alt |-> None, status |-> 1, calls |-> <<>>]
    ELSE cmd_anchor_calibrated(self,
             IF args.focal_length # 0 THEN "calibrate_from_focal_length"
             ELSE "calibrate_from_field_of_view",
             IF args.focal_length # 0
             THEN calibrate_from_focal_length(self, None, None, args.focal_length,
                                              args.sensor_width, args.sensor_height)
             ELSE calibrate_from_field_of_view(self, None, None, args.fov[1],
                                               args.fov[2], FALSE))

\* the arguments of the anchor command: a date that parses or not, the
\* focal length absent or zero (0), positive or negative, the sensor width
\* by default or zero, the field of view absent or given (zero and negative
\* values included), --no-dates and --output
CliArgs ==
    [datetime      : {"2024-12-21 12:00", "noon"},
     focal_length  : {0, 500, -500},
     sensor_width  : {360, 0},
     sensor_height : {240},
     fov           : {<<>>} \cup FovArgs,
     no_dates      : BOOLEAN,
     output        : {"", "overlay.png"}]

InitCli ==
    /\ ASTROPY_AVAILABLE = FALSE
    /\ calculator = None
    /\ mapper = None
    /\ anchorer = None
    /\ pixels_per_degree_az = None
    /\ pixels_per_degree_alt = None
    /\ image = None
    /\ has_scipy = TRUE
    /\ last = Call("main", <<>>, Return(<<>>))

\* main calls cmd_anchor once
CmdAnchor ==
    /\ last.op = "main"
    /\ \E args \in CliArgs, self \in {AnchorerOf(4)} :
          \E r \in {cmd_anchor(args, self)} :
              /\ anchorer' = IF args.datetime = "noon" THEN None ELSE Some(self)
              /\ pixels_per_degree_az' = r.az
              /\ pixels_per_degree_alt' = r.alt
              /\ last' = Call("cmd_anchor", args,
                              Return([calls |-> r.calls, status |-> r.status]))
    /\ UNCHANGED <<ASTROPY_AVAILABLE, calculator, mapper, image, has_scipy>>

SpecCli == InitCli /\ [][CmdAnchor]_vars

(***************************************************************************)
(* The sun detector                                                        *)
(***************************************************************************)

\* brightness values: dark, just under the brightest, the brightest
PixelValues == {0, 1999, 2000}

\* brightness values of a signed image with no pixel above zero
NegativeValues == {-5, -3}

\* the largest number of pixels of the small images
MaxPixels == 4

\* every small gray image over a set of values
GrayImages(values) ==
    UNION {[ (1..shape[1]) -> [ (1..shape[2]) -> values ] ] :
              shape \in {sh \in (1..MaxPixels) \X (1..MaxPixels) :
                            sh[1] * sh[2] <= MaxPixels}}

\* the 2-D image of the given brightness values
Gray2D(pixels) ==
    [r \in DOMAIN pixels |-> [c \in DOMAIN pixels[r] |-> <<pixels[r][c]>>]]

\* 3 x 4 gray images (more than ten pixels): a uniform background with up
\* to two pixels of another value
LargeImages ==
    {[r \in 1..3 |-> [c \in 1..4 |->
        IF <<r, c>> = p THEN u ELSE IF <<r, c>> = q THEN w ELSE b]] :
            b \in PixelValues, u \in PixelValues, w \in PixelValues,
            p \in (1..3) \X (1..4), q \in {<<2, 2>>, <<3, 4>>}}

\* the colour image whose brightest channel is the given gray image
Colour(pixels) ==
    [r \in DOMAIN pixels |-> [c \in DOMAIN pixels[r] |->
        <<pixels[r][c] \div 2, pixels[r][c], pixels[r][c] - 1>>]]

\* the side of the square synthetic images
DiscImageSize == 7

\* squared radii of the discs: 1, 5, 9, 13 and 21 pixels
DiscRadii == {0, 1, 2, 4, 5}

\* the cells within the squared radius of a center cell
Disc(center, radius2) ==
    {<<center[1] + o[1], center[2] + o[2]>> :
        o \in {p \in (-2..2) \X (-2..2) : p[1] * p[1] + p[2] * p[2] <= radius2}}

\* brightness of a synthetic image: of the disc, of its first pixel, and of
\* the sky, which is below 99.9% of the brightest
DiscBrightness ==
    {<<2000, 2000, 0>>, <<2000, 1999, 0>>, <<1999, 2000, 0>>, <<2000, 2000, 1997>>}

\* synthetic images: one disc, wholly inside the image, on a darker sky
DiscImages ==
    LET inside == (0..(DiscImageSize - 1)) \X (0..(DiscImageSize - 1))
    IN  {[r \in 1..DiscImageSize |-> [c \in 1..DiscImageSize |->
            IF <<r - 1, c - 1>> \notin Disc(center, radius2) THEN b[3]
            ELSE IF \A e \in Disc(center, radius2) :
                       (r - 1) * DiscImageSize + (c - 1)
                         <= e[1] * DiscImageSize + e[2]
                 THEN b[2] ELSE b[1]]] :
            center \in {c \in inside : Disc(c, 5) \subseteq inside},
            radius2 \in DiscRadii, b \in DiscBrightness}

Images ==
    LET gray == GrayImages(PixelValues) \cup GrayImages(NegativeValues)
                  \cup LargeImages \cup DiscImages
    IN  {[ndim |-> 2, pixels |-> Gray2D(g)] : g \in gray}
          \cup {[ndim |-> 3, pixels |-> Colour(g)] : g \in gray}

DetectVars == <<ASTROPY_AVAILABLE, calculator, mapper, anchorer, pixels_per_degree_az,
                pixels_per_degree_alt, image, has_scipy>>

InitDetect ==
    /\ ASTROPY_AVAILABLE = FALSE
    /\ calculator = None
    /\ mapper = None
    /\ anchorer = None
    /\ pixels_per_degree_az = None
    /\ pixels_per_degree_alt = None
    /\ image \in {Some(g) : g \in Images}
    /\ has_scipy \in BOOLEAN
    /\ last = Call("open", <<>>, Return(<<>>))

DetectSunPosition ==
    /\ last' = Call("_detect_sun_position", <<>>,
                    detect_sun_position(image.v, has_scipy))
    /\ UNCHANGED DetectVars

NextDetect == DetectSunPosition

SpecDetect == InitDetect /\ [][NextDetect]_vars

(***************************************************************************)
(* Properties                                                              *)
(***************************************************************************)

PixelMappingOps ==
    {"sky_to_pixel", "generate_analemma_points", "overlay_analemma", "get_statistics"}

\* no calibration has completed: the altitude factor is stored last, by a
\* calibration that completes
NoCalibrationCompleted == ~pixels_per_degree_alt.some

\* C1: on an anchorer on which no calibration has completed, every
\* pixel-mapping request (sky_to_pixel, generate_analemma_points,
\* overlay_analemma, get_statistics) fails with the must-calibrate error and
\* yields no pixel and no point list
C1_UncalibratedRequestsFail ==
    (NoCalibrationCompleted /\ last.op \in PixelMappingOps)
        => last.result.outcome = "ValueError: Must calibrate"

\* a stored scale factor is a positive finite number
GoodScale(scale) == scale.some => (~scale.v.nan /\ ~scale.v.inf /\ scale.v.v > 0)

\* C2: a calibration with a zero or negative field of view, or a zero or
\* negative focal length, is rejected with an error of the configuration, and
\* no negative or infinite pixels-per-degree value is ever stored
C2_BadCalibrationRejected ==
    /\ (last.op = "calibrate_from_field_of_view"
          /\ (last.args[1] <= 0 \/ last.args[2] <= 0))
        => last.result.outcome = "ValueError"
    /\ (last.op = "calibrate_from_focal_length" /\ last.args[1] <= 0)
        => last.result.outcome = "ValueError"
    /\ GoodScale(pixels_per_degree_az)
    /\ GoodScale(pixels_per_degree_alt)

\* C3: without the provider, asking for high-precision mode fails in the
\* constructor: no calculator is in high-precision mode without the provider,
\* and calculate and calculate_year never report the missing provider
C3_HighPrecisionFailsAtConstruction ==
    /\ (last.op = "__init__" /\ last.args[1] = "high-precision"
          /\ ~ASTROPY_AVAILABLE)
        => last.result.outcome = "RuntimeError"
    /\ (calculator.some /\ calculator.v.mode = "high-precision")
        => ASTROPY_AVAILABLE
    /\ last.op \in {"calculate", "calculate_year"}
        => last.result.outcome # "RuntimeError"

C3_Witness ==
    /\ ~ASTROPY_AVAILABLE
    /\ last.op = "__init__"
    /\ last.args[1] = "high-precision"
    /\ last.result.outcome = "RuntimeError"

\* C4: the sun detector returns a pixel for every non-empty 2-D or 3-D
\* image, with and without scipy: it never ends in an error
C4_DetectorNeverFails ==
    last.op = "_detect_sun_position" => ~Raised(last.result)

\* C5: get_sunrise_sunset_approx returns (None, None) for polar day and polar
\* night, |latitude| + |declination| beyond 90 degrees, and otherwise a pair
\* of numbers (-H, H) with H in [0, 180]; it never raises
C5_SunriseSunsetSentinel ==
    last.op = "get_sunrise_sunset_approx" =>
        LET r     == last.result.value
            reach == Abs(mapper.v.latitude) + Abs(last.args[1])
        IN  /\ ~Raised(last.result)
            /\ reach > 90000 => r.none
            /\ reach < 90000 => ~r.none
            /\ ~r.none => /\ ~r.sunset.nan /\ ~r.sunrise.nan
                          /\ r.sunset.v \in 0..180000
                          /\ r.sunrise.v = -r.sunset.v

C5_Witness ==
    /\ last.op = "get_sunrise_sunset_approx"
    /\ last.result.value.none
    /\ Abs(mapper.v.latitude) + Abs(last.args[1]) > 90000

\* the sun at zenith or nadir: cos(altitude) = 0
AtZenithOrNadir(altitude) == ~altitude.nan /\ Cos(altitude.v) = 0

\* C6: at zenith or nadir calculate_azimuth returns one defined sentinel, the
\* same whatever the declination and the hour angle, and not a quotient by
\* cos(altitude)
C6_ZenithAzimuthIsSentinel ==
    (last.op = "calculate_azimuth" /\ AtZenithOrNadir(last.args[3])) =>
        \A dec \in Declinations, ha \in HourAngles :
            calculate_azimuth(mapper.v, dec, ha, last.args[3]) = last.result.value

\* a horizon position within its ranges
InRange(point) ==
    /\ ~point.azimuth.nan /\ point.azimuth.v >= 0 /\ point.azimuth.v < 360000
    /\ ~point.altitude.nan /\ point.altitude.v >= -90000 /\ point.altitude.v <= 90000

\* C7: every projection of map_single_point and map_to_horizon has its
\* azimuth in [0, 360) and its altitude in [-90, 90]
C7_HorizonRanges ==
    /\ last.op = "map_single_point" => InRange(last.result.value)
    /\ last.op = "map_to_horizon" =>
          \A i \in DOMAIN last.result.value : InRange(last.result.value[i])

\* C8: after a calibration, sky_to_pixel of the anchor's own altitude and
\* azimuth returns exactly sun_pixel
C8_AnchorMapsToSunPixel ==
    (/\ last.op = "sky_to_pixel"
     /\ pixels_per_degree_az.some /\ pixels_per_degree_alt.some
     /\ last.args = <<anchorer.anchor_data.altitude, anchorer.anchor_data.azimuth>>)
        => /\ ~Raised(last.result)
           /\ last.result.value[1] * 1000 = anchorer.sun_pixel[1]
           /\ last.result.value[2] * 1000 = anchorer.sun_pixel[2]

\* the days of a year sequence with a negative altitude
DaysBelow(sky_data) == {i \in DOMAIN sky_data : sky_data[i].altitude.v < 0}

\* C9: generate_analemma_points returns exactly the days whose altitude is
\* not negative, altitude 0 included; overlay_analemma reports the days below
\* the horizon as points_filtered, and points_drawn + points_filtered is the
\* number of days computed
C9_HorizonFilter ==
    /\ (last.op = "generate_analemma_points" /\ ~Raised(last.result)) =>
          LET sky_data == SkyData(anchorer, last.args[1])
              points   == last.result.value
          IN  /\ Len(points) = Len(sky_data) - Cardinality(DaysBelow(sky_data))
              /\ \A i \in DOMAIN sky_data :
                    (i \in DaysBelow(sky_data))
                        <=> ~\E j \in DOMAIN points : points[j].date = sky_data[i].date
              /\ \A j \in DOMAIN points : points[j].altitude.v >= 0
    /\ (last.op = "overlay_analemma" /\ ~Raised(last.result)) =>
          LET sky_data == SkyData(anchorer, GenerateDefaultDays)
              stats    == last.result.value
          IN  /\ stats.points_filtered = Cardinality(DaysBelow(sky_data))
              /\ stats.points_drawn + stats.points_filtered = Len(sky_data)

C9_Witness ==
    /\ last.op = "generate_analemma_points"
    /\ ~Raised(last.result)
    /\ \E j \in DOMAIN last.result.value : last.result.value[j].altitude.v = 0
    /\ Len(last.result.value) > 0
    /\ Len(last.result.value) < last.args[1]

\* C10: calculate_year returns exactly days records (365 when days is
\* omitted), for consecutive calendar days from 1 January of the calculator's
\* year at the given clock time, each with declination, eot, day_of_year and
\* date
C10_YearRecords ==
    (last.op = "calculate_year" /\ ~Raised(last.result)) =>
        LET records == last.result.value
            clock   == last.args[1]
            days    == IF last.args[2].some THEN last.args[2].v ELSE 365
        IN  /\ Len(records) = days
            /\ days > 0 => records[1].date =
                  [year |-> calculator.v.year, month |-> 1, day |-> 1,
                   hour |-> clock[1], minute |-> clock[2]]
            /\ \A i \in 1..(Len(records) - 1) :
                  records[i + 1].date = NextDay(records[i].date)
            /\ \A i \in DOMAIN records :
                  DOMAIN records[i] = {"declination", "eot", "day_of_year", "date"}

C10_Witness ==
    /\ last.op = "calculate_year"
    /\ ~Raised(last.result)
    /\ ~last.args[2].some
    /\ Len(last.result.value) = 365
    /\ calculator.v.year = 2024

\* C11: along the output of calculate_year the day_of_year strictly increases
\* from each record to the next, for every year and every number of days
\* from 1 to 366
C11_DayOfYearIncreases ==
    (last.op = "calculate_year" /\ ~Raised(last.result)) =>
        \A i \in 1..(Len(last.result.value) - 1) :
            last.result.value[i + 1].day_of_year > last.result.value[i].day_of_year

\* C12: the year computation is restartable and stateless: after any other
\* operation on the same calculator (compare_modes included), the
\* calculate_year call made before, repeated with the same arguments, returns
\* the same sequence
C12_YearCallsRepeatable ==
    [][(last.op = "calculate_year" /\ last'.op # "__init__") =>
          CalculateYear(calculator'.v.mode, calculator'.v.year, ASTROPY_AVAILABLE',
                        last.args[1],
                        IF last.args[2].some THEN last.args[2].v ELSE DefaultDays,
                        last.args[3]) = last.result]_vars

\* C13: the calibration is immutable after creation: once both
\* pixels-per-degree values are stored, no later operation, a second
\* calibration included, changes them
C13_CalibrationImmutable ==
    [][(pixels_per_degree_az.some /\ pixels_per_degree_alt.some) =>
          /\ pixels_per_degree_az' = pixels_per_degree_az
          /\ pixels_per_degree_alt' = pixels_per_degree_alt]_vars

\* C14: in high-precision mode the equation of time returned for a timestamp
\* is the approximate equation of time of its day of year, the value
\* approximate mode returns; compare_modes therefore reports no difference
\* of the equation of time
C14_HighPrecisionEotIsApproximate ==
    /\ (/\ last.op = "calculate"
         /\ calculator.v.mode = "high-precision"
         /\ ~Raised(last.result))
        => /\ last.result.value.eot
                 = calculate_equation_of_time_approximate(tm_yday(last.args[1]))
           /\ last.result.value.eot
                 = calculate("approximate", ASTROPY_AVAILABLE, last.args[1],
                             TRUE).value.eot
    /\ (last.op = "compare_modes" /\ ~Raised(last.result))
        => /\ last.result.value.high_precision.eot
                 = last.result.value.approximate.eot
           /\ last.result.value.differences.eot_diff = 0

C14_Witness ==
    /\ last.op = "calculate"
    /\ calculator.v.mode = "high-precision"
    /\ ~Raised(last.result)
    /\ last.result.value.eot # 0
    /\ last.result.value.eot # eot_from_right_ascension(last.args[1])

\* C15: a SkyMapper made without a timezone offset has the offset
\* round(longitude / 15), the whole number of hours nearest to longitude / 15;
\* one made with an offset, the offset 0 included, has that offset unchanged
C15_TimezoneOffset ==
    last.op = "SkyMapper" =>
        LET lon    == last.args[2]
            tz     == last.args[3]
            offset == mapper.v.timezone_offset
        IN  /\ ~tz.some => 2 * Abs(15000 * offset - lon) <= 15000
            /\ tz.some => offset = tz.v

C15_Witness ==
    /\ last.op = "SkyMapper"
    /\ last.args[2] = -88200
    /\ last.args[3] = Some(0)
    /\ mapper.v.timezone_offset = 0

\* C16: map_to_horizon returns one record for each record given, in the same
\* order; each keeps the date, day_of_year, declination and eot of its input
\* and adds altitude, azimuth and hour_angle; the records given are left as
\* they were
C16_MapToHorizonFrame ==
    last.op = "map_to_horizon" =>
        LET given   == YearResults(last.args[1])
            after   == last.args[2]
            records == last.result.value
        IN  /\ Len(records) = Len(given)
            /\ \A i \in DOMAIN given :
                  /\ records[i].date = given[i].date
                  /\ records[i].day_of_year = given[i].day_of_year
                  /\ records[i].declination = given[i].declination
                  /\ records[i].eot = given[i].eot
                  /\ DOMAIN records[i] = DOMAIN given[i]
                        \cup {"altitude", "azimuth", "hour_angle"}
            /\ after = given

C16_Witness ==
    /\ last.op = "map_to_horizon"
    /\ Len(last.result.value) = DefaultDays
    /\ last.args[2] = YearResults(DefaultDays)
    /\ last.result.value[DefaultDays].day_of_year = DefaultDays

\* C17: an ImageAnchorer made without sun_pixel has the center of the image,
\* (image_width // 2, image_height // 2), as its anchor pixel
C17_DefaultPixelIsCenter ==
    \A k \in DOMAIN AnchorerArgs :
        (anchorer = AnchorerOf(k) /\ ~AnchorerArgs[k][4].some) =>
            anchorer.sun_pixel = <<(anchorer.image_width \div 2) * 1000,
                                   (anchorer.image_height \div 2) * 1000>>

\* C18: for every day from 1 to 365 (and 366) the approximate declination is
\* within 23.45 degrees of zero, by itself and in the records of a year
C18_DeclinationBound ==
    /\ last.op = "calculate_declination_approximate"
        => Abs(last.result.value) <= OBLIQUITY
    /\ last.op = "calculate_year"
        => \A i \in DOMAIN last.result.value :
              Abs(last.result.value[i].declination) <= OBLIQUITY

C18_Witness ==
    /\ last.op = "calculate_declination_approximate"
    /\ last.args[1] \in 1..365
    /\ Abs(last.result.value) >= OBLIQUITY - 10

\* C19: for every day of the year the approximate equation of time is within
\* 20 minutes of zero, and the series of a year of 365 days or more holds a
\* positive and a negative value
C19_EquationOfTimeBound ==
    /\ last.op = "calculate_equation_of_time_approximate"
        => Abs(last.result.value) <= 20000
    /\ last.op = "calculate_year"
        => /\ \A i \in DOMAIN last.result.value :
                 Abs(last.result.value[i].eot) <= 20000
           /\ Len(last.result.value) >= 365
                 => /\ \E i \in DOMAIN last.result.value :
                          last.result.value[i].eot > 0
                    /\ \E i \in DOMAIN last.result.value :
                          last.result.value[i].eot < 0

C19_Witness ==
    /\ last.op = "calculate_year"
    /\ Len(last.result.value) = 365
    /\ \E i \in DOMAIN last.result.value : last.result.value[i].eot > 10000
    /\ \E i \in DOMAIN last.result.value : last.result.value[i].eot < -10000

\* the image is one bright disc around the center cell: the disc is inside
\* the image, it has a positive brightness, every pixel of it is brighter
\* than every other pixel, and every other pixel is below the threshold
IsBrightDisc(img, center, radius2) ==
    LET disc == Disc(center, radius2)
        sky  == Cells(img) \ disc
        max_val == MaxVal(img)
    IN  /\ disc \subseteq Cells(img)
        /\ \A d \in disc : \A e \in sky : Gray(img, d) > Gray(img, e)
        /\ max_val > 0
        /\ \A e \in sky : Gray(img, e) * 1000 < max_val * 999

\* C20: on an image whose only bright region is one disc of known center,
\* every other pixel being below the threshold, the sun detector returns a
\* pixel within one pixel of that center in x and in y
C20_DiscCenterDetected ==
    last.op = "_detect_sun_position" =>
        \A center \in Cells(image.v), radius2 \in DiscRadii :
            IsBrightDisc(image.v, center, radius2) =>
                /\ ~Raised(last.result)
                /\ Abs(last.result.value[1] - center[2]) <= 1
                /\ Abs(last.result.value[2] - center[1]) <= 1

C20_Witness ==
    /\ last.op = "_detect_sun_position"
    /\ ~has_scipy
    /\ ~Raised(last.result)
    /\ \E center \in Cells(image.v) :
          /\ IsBrightDisc(image.v, center, 4)
          /\ center[1] # center[2]
          /\ last.result.value # <<center[2], center[1]>>

\* C21: the hour angle is 15 * (hour - 12 + minute / 60) + eot / 4
\* + (longitude - 15 * timezone_offset), for every hour of the day and minute
\* of the hour; a longitude that is passed, 0 included, replaces the
\* observer's (four times the angle is compared, eot / 4 being rounded to a
\* thousandth of a degree)
C21_HourAngleLinear ==
    /\ mapper.some =>
          \A hour \in 0..23, minute \in 0..59, eot \in {14602},
             lon \in {None, Some(0)} :
              LET longitude == IF lon.some THEN lon.v ELSE mapper.v.longitude
                  hour_angle == equation_of_time_to_hour_angle(mapper.v, eot, hour,
                                                               minute, lon)
              IN  Abs(4 * hour_angle
                        - (15000 * (4 * (hour - 12)) + 1000 * minute + eot
                             + 4 * (longitude - 15000 * mapper.v.timezone_offset))) <= 2
    /\ last.op = "equation_of_time_to_hour_angle" =>
          LET longitude == IF last.args[4].some THEN last.args[4].v
                           ELSE mapper.v.longitude
          IN  Abs(4 * last.result.value
                    - (15000 * (4 * (last.args[2] - 12)) + 1000 * last.args[3]
                         + last.args[1]
                         + 4 * (longitude - 15000 * mapper.v.timezone_offset))) <= 2

C21_Witness ==
    /\ last.op = "equation_of_time_to_hour_angle"
    /\ last.args[4] = Some(0)
    /\ mapper.v.longitude # 0
    /\ last.args[1] # 0
    /\ last.args[3] # 0
    /\ last.result.value # 0

\* C25: at the (hour, minute) that get_solar_noon_time returns, an hour of
\* the day and a minute of the hour, the hour angle of
\* equation_of_time_to_hour_angle is less than 0.25 degrees from 0
C25_SolarNoonHourAngleZero ==
    last.op = "get_solar_noon_time" =>
        LET hour   == last.result.value[1]
            minute == last.result.value[2]
        IN  /\ hour \in 0..23
            /\ minute \in 0..59
            /\ Abs(equation_of_time_to_hour_angle(mapper.v, last.args[1], hour,
                                                   minute, None)) < 250

\* a scale factor that is a positive number
PositiveScale(scale) == scale.some /\ ~scale.v.nan /\ ~scale.v.inf /\ scale.v.v > 0

\* C22: sky_to_pixel returns the anchor pixel plus (delta_az * px_per_deg_az,
\* -delta_alt * px_per_deg_alt), each coordinate made an integer; with
\* positive scales a higher altitude never gives a larger y, a larger azimuth
\* never gives a smaller x, and an anchor and a position moved by the same
\* angles give the same pixel
C22_SkyToPixelOrientation ==
    (/\ last.op = "sky_to_pixel"
     /\ ~Raised(last.result)
     /\ PositiveScale(pixels_per_degree_az)
     /\ PositiveScale(pixels_per_degree_alt)) =>
        LET altitude  == last.args[1]
            azimuth   == last.args[2]
            delta_az  == azimuth.v - anchorer.anchor_data.azimuth.v
            delta_alt == altitude.v - anchorer.anchor_data.altitude.v
            x         == last.result.value[1]
            y         == last.result.value[2]
            to_pixel(self, alt_shift, az_shift) ==
                sky_to_pixel(self, pixels_per_degree_az, pixels_per_degree_alt,
                             Num(altitude.v + alt_shift), Num(azimuth.v + az_shift))
            moved(shift) ==
                [anchorer EXCEPT !.anchor_data.altitude = Num(@.v + shift),
                                 !.anchor_data.azimuth = Num(@.v - shift)]
        IN  /\ Abs(100 * (x * 1000 - anchorer.sun_pixel[1])
                     - delta_az * pixels_per_degree_az.v.v) < 100050
            /\ Abs(100 * (y * 1000 - anchorer.sun_pixel[2])
                     + delta_alt * pixels_per_degree_alt.v.v) < 100050
            /\ \A shift \in {-30000, -50, 1000, 20000} :
                  /\ ~Raised(to_pixel(anchorer, shift, 0))
                  /\ ~Raised(to_pixel(anchorer, 0, shift))
                  /\ to_pixel(anchorer, shift, 0).value[1] = x
                  /\ to_pixel(anchorer, 0, shift).value[2] = y
                  /\ shift > 0 => /\ to_pixel(anchorer, shift, 0).value[2] <= y
                                  /\ to_pixel(anchorer, 0, shift).value[1] >= x
                  /\ shift < 0 => /\ to_pixel(anchorer, shift, 0).value[2] >= y
                                  /\ to_pixel(anchorer, 0, shift).value[1] <= x
                  /\ to_pixel(moved(shift), shift, -shift) = last.result

C22_Witness ==
    /\ last.op = "sky_to_pixel"
    /\ ~Raised(last.result)
    /\ PositiveScale(pixels_per_degree_az)
    /\ PositiveScale(pixels_per_degree_alt)
    /\ last.args[1].v < anchorer.anchor_data.altitude.v
    /\ last.args[2].v > anchorer.anchor_data.azimuth.v
    /\ last.result.value[1] * 1000 > anchorer.sun_pixel[1] + 1000
    /\ last.result.value[2] * 1000 > anchorer.sun_pixel[2] + 1000

\* C28: two positions at the same altitude whose azimuths are d degrees
\* apart on the compass circle, a pair on both sides of North included, are
\* mapped by sky_to_pixel to x coordinates at most d * px_per_deg_az + 1
\* pixels apart
C28_AzimuthWrapContinuous ==
    (/\ last.op = "sky_to_pixel"
     /\ ~Raised(last.result)
     /\ PositiveScale(pixels_per_degree_az)
     /\ PositiveScale(pixels_per_degree_alt)) =>
        \A d \in {500, 2000} :
            LET across == sky_to_pixel(anchorer, pixels_per_degree_az,
                                       pixels_per_degree_alt, last.args[1],
                                       Num((last.args[2].v + d) % 360000))
            IN  /\ ~Raised(across)
                /\ 100000 * Abs(across.value[1] - last.result.value[1])
                      <= d * pixels_per_degree_az.v.v + 100000

\* pixel is the brightness-weighted centroid of the cells K, each coordinate
\* cut to an integer, as (x = column, y = row); the weights are positive
IsCentroidOf(img, K, pixel) ==
    LET weight == WeightedSum(img, K, 0)
    IN  /\ weight > 0
        /\ pixel[1] * weight <= WeightedSum(img, K, 2)
        /\ WeightedSum(img, K, 2) < (pixel[1] + 1) * weight
        /\ pixel[2] * weight <= WeightedSum(img, K, 1)
        /\ WeightedSum(img, K, 1) < (pixel[2] + 1) * weight

\* pixel is the first of the brightest pixels in row-major order
IsBrightestPixel(img, pixel) ==
    /\ <<pixel[2], pixel[1]>> \in Cells(img)
    /\ \A e \in Cells(img) :
          \/ Gray(img, e) < Gray(img, <<pixel[2], pixel[1]>>)
          \/ /\ Gray(img, e) = Gray(img, <<pixel[2], pixel[1]>>)
             /\ Raster(img, <<pixel[2], pixel[1]>>) <= Raster(img, e)

\* C23: without connected-component labeling the detector returns the
\* brightness-weighted centroid of all the pixels that pass the threshold,
\* and the single brightest pixel only when fewer than 10 pixels pass it
C23_FallbackTiers ==
    (last.op = "_detect_sun_position" /\ ~has_scipy /\ ~Raised(last.result)) =>
        IF Cardinality(BrightMask(image.v)) < 10
        THEN IsBrightestPixel(image.v, last.result.value)
        ELSE IsCentroidOf(image.v, BrightMask(image.v), last.result.value)

\* C24: with connected-component labeling the mask is the pixels at or above
\* 99.9% of the maximum, and the detector returns, as (x = column, y = row),
\* the brightness-weighted centroid of the component of the mask that has
\* the most pixels, the lowest-labelled one on a tie
C24_LargestBlobCentroid ==
    (/\ last.op = "_detect_sun_position"
     /\ has_scipy
     /\ MaxVal(image.v) > 0) =>
        LET max_val    == MaxVal(image.v)
            mask       == {c \in Cells(image.v) :
                              1000 * Gray(image.v, c) >= 999 * max_val}
            components == Components(mask)
        IN  /\ ~Raised(last.result)
            /\ \E K \in components :
                  /\ \A L \in components \ {K} :
                        \/ Cardinality(K) > Cardinality(L)
                        \/ /\ Cardinality(K) = Cardinality(L)
                           /\ \E c \in K : \A e \in L :
                                 Raster(image.v, c) < Raster(image.v, e)
                  /\ IsCentroidOf(image.v, K, last.result.value)

C24_Witness ==
    /\ last.op = "_detect_sun_position"
    /\ has_scipy
    /\ MaxVal(image.v) > 0
    /\ ~Raised(last.result)
    /\ Cardinality(Components(BrightMask(image.v))) > 1
    /\ \E K \in Components(BrightMask(image.v)) :
          /\ Cardinality(K) > 1
          /\ IsCentroidOf(image.v, K, last.result.value)
          /\ ~IsCentroidOf(image.v, BrightMask(image.v), last.result.value)

\* C30: a pixel that the detector returns is inside the image: its x is a
\* column and its y is a row
C30_DetectedPixelInsideImage ==
    (last.op = "_detect_sun_position" /\ ~Raised(last.result)) =>
        /\ last.result.value[1] \in 0..(Width(image.v) - 1)
        /\ last.result.value[2] \in 0..(Height(image.v) - 1)

C30_Witness ==
    /\ last.op = "_detect_sun_position"
    /\ ~Raised(last.result)
    /\ Width(image.v) # Height(image.v)
    /\ last.result.value[1] = Width(image.v) - 1
    /\ last.result.value[2] = Height(image.v) - 1
    /\ last.result.value[1] # last.result.value[2]

\* C26: after any sequence of calibration calls, failing ones included, the
\* two scale factors are set together: pixels_per_degree_az is None exactly
\* when pixels_per_degree_alt is None, so that a failed calibration cannot
\* have set one of them
C26_ScaleFactorsSetTogether ==
    pixels_per_degree_az.some <=> pixels_per_degree_alt.some

\* C27: compare_modes leaves the mode of the calculator as it was before the
\* call, whether it returns or raises
C27_CompareModesRestoresMode ==
    [][(calculator.some /\ last'.op = "compare_modes") =>
          calculator'.v.mode = calculator.v.mode]_vars

\* C29: in the anchor command a calibration has returned before
\* get_statistics or overlay_analemma is called; a command that calls
\* neither exits with status 1; and the lens is used when both a usable
\* --focal-length and a --fov are given
C29_CalibrationBeforeMapping ==
    last.op = "cmd_anchor" =>
        LET calls   == last.result.value.calls
            mapping == {i \in DOMAIN calls :
                           calls[i][1] \in {"get_statistics", "overlay_analemma"}}
        IN  /\ \A i \in mapping :
                  \E j \in 1..(i - 1) :
                      /\ calls[j][1] \in {"calibrate_from_focal_length",
                                          "calibrate_from_field_of_view"}
                      /\ calls[j][2] = "ok"
            /\ mapping = {} => last.result.value.status = 1
            /\ (/\ last.args.datetime # "noon"
                /\ last.args.focal_length # 0
                /\ last.args.fov # <<>>) =>
                    calls[1][1] = "calibrate_from_focal_length"

C29_Witness ==
    /\ last.op = "cmd_anchor"
    /\ last.args.focal_length = 0
    /\ last.args.fov # <<>>
    /\ last.result.value.status = 0
    /\ Len(last.result.value.calls) = 3
    /\ last.result.value.calls[1] = <<"calibrate_from_field_of_view", "ok">>
    /\ last.result.value.calls[3] = <<"overlay_analemma", "ok">>

====
